---- MODULE Spec2Model ----
(***************************************************************************)
(* Fund data acquisition of src/main.py: the retry executor                *)
(* (fetch_with_retry), the cached per-ticker fetch (get_fund_data), and    *)
(* the two batch modes of main(): fetch_sequentially and the               *)
(* ThreadPoolExecutor map.                                                 *)
(*                                                                         *)
(* Conventions of the model                                                *)
(*   - an optional Python value is a tuple: <<>> is None / missing key,    *)
(*     <<v>> is the value v;                                               *)
(*   - a ticker 'TSLI.L' is the pair <<"TSLI", "L">> (base, suffix);       *)
(*   - a dict is a function whose DOMAIN is its key set;                   *)
(*   - prices are integers (minor units); percentages are integers in      *)
(*     hundredths of a percent, truncated by \div;                         *)
(*   - time.time() is the integer clock `now`, in seconds.                 *)
(*                                                                         *)
(* Specifications                                                          *)
(*   Spec        batches of main(), sequential and parallel                *)
(*   FairSpec    batches that make progress, against a steady remote       *)
(*   SpecCall    single calls of get_fund_data as the clock advances       *)
(*   SpecRetry   fetch_with_retry, one loop iteration at a time            *)
(*   SpecFields  the field computations of get_fund_data on given payloads *)
(***************************************************************************)
EXTENDS Integers, Sequences, FiniteSets, TLC

(* ---------------------------------------------------------------------- *)
(* Bounds of the model                                                    *)
(* ---------------------------------------------------------------------- *)
NumTickers == 4
MaxTime == 900
MaxCalls == 2

(* ---------------------------------------------------------------------- *)
(* Program constants                                                      *)
(* ---------------------------------------------------------------------- *)
max_retries == 3
max_workers == 3
CACHE_SECONDS == 900
default_duration == 15

(* FUND_TICKERS, as (base, suffix) pairs in the order of the source list. *)
AllTickers ==
    << <<"TSLI", "L">>, <<"YGLD", "DE">>, <<"SPYY", "L">>, <<"GOOI", "L">>,
       <<"QQQY", "L">>, <<"COIY", "L">>, <<"METY", "L">>, <<"ONVD", "DE">>,
       <<"OAMZ", "DE">>, <<"AAPY", "DE">>, <<"YMSF", "DE">> >>

(* A list in which the first ticker appears twice. *)
TickersWithDuplicate ==
    [k \in 1..NumTickers |-> IF k = 2 THEN AllTickers[1] ELSE AllTickers[k]]

FUND_TICKERS == SubSeq(AllTickers, 1, NumTickers)

Idx == 1..NumTickers

TickerSet == {FUND_TICKERS[i] : i \in Idx}

None == <<>>

Some(v) == <<v>>

(* ---------------------------------------------------------------------- *)
(* get_currency_symbol: "GBP" and "EUR" stand for the pound and euro     *)
(* symbol strings of lines 107 and 109.                                   *)
(* ---------------------------------------------------------------------- *)
get_currency_symbol(ticker) ==
    IF ticker[2] = "L" THEN "GBP"
    ELSE IF ticker[2] = "DE" THEN "EUR"
    ELSE "$"

(* ---------------------------------------------------------------------- *)
(* Exceptions.  str(e) is the whole record: type, text and, for the       *)
(* exhaustion failure, the operation, ticker and retry budget it names.   *)
(* ---------------------------------------------------------------------- *)
Exc(type, text) == [type |-> type, text |-> text, op |-> "", ticker |-> None, n |-> 0]

ExhaustedExc(ticker, method_name) ==
    [type |-> "Exception", text |-> "Failed to fetch", op |-> method_name,
     ticker |-> Some(ticker), n |-> max_retries]

(* What the remote method does on one attempt:                            *)
(*   ok     it returns its payload                                        *)
(*   429    HTTPError / RequestException whose text contains "429"        *)
(*   http   HTTPError / RequestException without "429" (500, connection)  *)
(*   other  an exception that is neither (KeyError, ValueError, ...)      *)
Outcomes == {"ok", "429", "http", "other"}

OutcomeExc(o) ==
    IF o = "429" THEN Exc("HTTPError", "429 Too Many Requests")
    ELSE IF o = "http" THEN Exc("HTTPError", "500 Server Error")
    ELSE Exc("KeyError", "unexpected payload")

IsRequestError(e) == e.type \in {"HTTPError", "RequestException"}

(* Every request error taken for a rate limit. *)
Has429Always(e) == TRUE

(* Line 125: "429" in str(e). *)
Has429(e) == e.text = "429 Too Many Requests"

(* ---------------------------------------------------------------------- *)
(* fetch_with_retry: the state of one invocation's loop.                  *)
(*   retries  the loop counter                                            *)
(*   attempts number of invocations of the remote method                  *)
(*   trace    what the invocation did, in order: "jitter" (the sleep of   *)
(*            line 119), "call" (line 123), <<"backoff", 2^retries>>      *)
(*            (line 128, integer part of the wait)                        *)
(*   status   "running" | "returned" | "raised"                           *)
(* ---------------------------------------------------------------------- *)
RetryStart ==
    [retries |-> 0, attempts |-> 0, trace |-> <<>>, status |-> "running",
     exc |-> Exc("", "")]

(* A wait that grows by one second per retry. *)
LinearWait(n) == n + 1

Pow2(n) == 2 ^ n

(* An attempt that calls the remote method without sleeping first. *)
AttemptWithoutJitter == << <<"call">> >>

(* Lines 119-123: the jitter sleep, then the remote method. *)
Attempt == << <<"jitter">>, <<"call">> >>

(* The wait skipped when no attempt is left after it. *)
BackoffUnlessLast(st) ==
    IF st.retries + 1 < max_retries THEN << <<"backoff", Pow2(st.retries)>> >> ELSE <<>>

(* Lines 126-128: the backoff sleep of 2 ** retries + random.random(). *)
Backoff(st) == << <<"backoff", Pow2(st.retries)>> >>

(* One iteration of the while loop (lines 116-131) when the remote method *)
(* answers with outcome o.                                                *)
RetryIteration(st, o) ==
    LET called == [st EXCEPT !.attempts = @ + 1, !.trace = @ \o Attempt]
        e == OutcomeExc(o)
    IN  IF o = "ok"
        THEN [called EXCEPT !.status = "returned"]
        ELSE IF IsRequestError(e)
             THEN IF Has429(e)
                  THEN [called EXCEPT !.trace = @ \o Backoff(st),
                                      !.retries = @ + 1]
                  ELSE [called EXCEPT !.status = "raised", !.exc = e]
             ELSE [called EXCEPT !.status = "raised", !.exc = e]

(* The loop guard with the comparison off by one. *)
RetryGuardInclusive(st) == st.retries <= max_retries

(* The loop guard of line 116. *)
RetryGuard(st) == st.retries < max_retries

(* Line 134: the loop ended without returning. *)
RetryExhaust(st, ticker, method_name) ==
    [st EXCEPT !.status = "raised", !.exc = ExhaustedExc(ticker, method_name)]

(* The whole call, against a remote that answers attempt k with script[k]. *)
RECURSIVE RetryLoop(_, _, _, _)
RetryLoop(st, ticker, method_name, script) ==
    IF st.status # "running" THEN st
    ELSE IF RetryGuard(st) /\ st.attempts < Len(script)
         THEN RetryLoop(RetryIteration(st, script[st.attempts + 1]),
                        ticker, method_name, script)
         ELSE RetryExhaust(st, ticker, method_name)

fetch_with_retry(ticker, method_name, script) ==
    RetryLoop(RetryStart, ticker, method_name, script)

(* Remote behaviours: the answer to each attempt, for one attempt more   *)
(* than the budget allows.                                                *)
Scripts == [1..(max_retries + 1) -> Outcomes]

(* ---------------------------------------------------------------------- *)
(* Payloads of the remote source                                          *)
(*   info: a dict; marketCap is None, <<"num", n>> or <<"str">> (a value  *)
(*         that is not a number: comparing it with an int is a TypeError) *)
(*   hist: the list of daily closes (the 'Close' column); <<>> is the     *)
(*         empty DataFrame                                                *)
(* ---------------------------------------------------------------------- *)
EmptyInfo == [shortName |-> None, longName |-> None, marketCap |-> None,
              annualReportExpenseRatio |-> None, totalExpenseRatio |-> None]

EmptyFrame == <<>>

(* dict.get(key, default) on an optional field. *)
Get(opt, default) == IF opt = None THEN default ELSE opt

(* `if market_cap:` -- None and 0 are false, a non-empty string is true. *)
Truthy(market_cap) ==
    market_cap # None /\ (market_cap[1] = "str" \/ market_cap[2] # 0)

(* ((a - b) / b) * 100, in hundredths of a percent. *)
PctChange(a, b) == ((a - b) * 10000) \div b

(* f"{m / unit:.2f}": hundredths of m / unit, rounded to nearest (unit is *)
(* a multiple of 200; written so that no intermediate exceeds 2^31).      *)
TwoDecimals(m, unit) == (m + unit \div 200) \div (unit \div 100)

(* Lines 198-207. *)
FormatAum(currency_symbol, market_cap) ==
    IF Truthy(market_cap)
    THEN LET m == market_cap[2]
         IN  IF m >= 1000000000
             THEN <<currency_symbol, TwoDecimals(m, 1000000000), "B">>
             ELSE IF m >= 1000000
                  THEN <<currency_symbol, TwoDecimals(m, 1000000), "M">>
                  ELSE <<currency_symbol, TwoDecimals(m, 1000), "K">>
    ELSE <<"N/A">>

(* Line 200 raises TypeError when the market cap is truthy and no number. *)
AumRaises(market_cap) == Truthy(market_cap) /\ market_cap[1] = "str"

(* Lines 176-179. *)
LastPrice(hist) == IF hist # EmptyFrame THEN Some(hist[Len(hist)]) ELSE None

(* Lines 181-186. *)
Perf1m(hist) ==
    IF hist # EmptyFrame /\ Len(hist) > 20
    THEN IF hist[1] # 0 THEN Some(PctChange(hist[Len(hist)], hist[1])) ELSE None
    ELSE None

(* Lines 188-192. *)
Change1d(hist) ==
    IF hist # EmptyFrame /\ Len(hist) > 1
    THEN IF hist[Len(hist) - 1] # 0
         THEN Some(PctChange(hist[Len(hist)], hist[Len(hist) - 1]))
         ELSE None
    ELSE None

(* Line 195. *)
FundName(ticker, info) == Get(info.shortName, Get(info.longName, Some(ticker[1])))[1]

(* Lines 209-215: ratio and percentage both in units of 1e-4. *)
ExpenseRatio(info) ==
    LET r == Get(info.annualReportExpenseRatio, info.totalExpenseRatio)
    IN  IF r = None THEN None ELSE Some(r[1] * 100)

(* Lines 217-228. *)
SuccessRecord(ticker, info, hist) ==
    [ticker |-> ticker,
     name |-> FundName(ticker, info),
     last_price |-> LastPrice(hist),
     currency_symbol |-> get_currency_symbol(ticker),
     performance_1m |-> Perf1m(hist),
     nav_change_1d |-> Change1d(hist),
     nav |-> LastPrice(hist),
     aum |-> FormatAum(get_currency_symbol(ticker), info.marketCap),
     expense_ratio |-> ExpenseRatio(info),
     status |-> "success"]

(* An error record that keeps the price computed before the failure. *)
ProcessingErrorRecordWithPrice(ticker, e) ==
    [ticker |-> ticker, status |-> "error", last_price |-> None,
     message |-> [prefix |-> "Data processing error: ", cause |-> e]]

(* Lines 236-242. *)
ProcessingErrorRecord(ticker, e) ==
    [ticker |-> ticker, status |-> "error",
     message |-> [prefix |-> "Data processing error: ", cause |-> e]]

(* Lines 244-250. *)
InitErrorRecord(ticker, e) ==
    [ticker |-> ticker, status |-> "error",
     message |-> [prefix |-> "", cause |-> e]]

(* ---------------------------------------------------------------------- *)
(* What the remote source does during one get_fund_data call: whether     *)
(* yf.Ticker(ticker) constructs, the answers to the attempts of the info  *)
(* call and of the history call, and the payloads they return.            *)
(* ---------------------------------------------------------------------- *)
Series21 == [k \in 1..21 |-> IF k = 21 THEN 110 ELSE IF k = 20 THEN 108 ELSE 100]

FullInfo == [shortName |-> Some("IncomeShares"), longName |-> Some("IncomeShares ETP"),
             marketCap |-> <<"num", 1500000000>>,
             annualReportExpenseRatio |-> Some(55), totalExpenseRatio |-> None]

BadCapInfo == [FullInfo EXCEPT !.marketCap = <<"str">>]

Always(o) == [k \in 1..(max_retries + 1) |-> o]

Then429(n, o) == [k \in 1..(max_retries + 1) |-> IF k <= n THEN "429" ELSE o]

Scenario(init, infoScript, info, histScript, hist) ==
    [init |-> init, infoScript |-> infoScript, info |-> info,
     histScript |-> histScript, hist |-> hist]

Failure(stage, e) == [stage |-> stage, exc |-> e]

(* Lines 153-159: the info call; any exception falls back to {}. *)
InfoOrFallback(res, payload) == IF res.status = "returned" THEN payload ELSE EmptyInfo

(* Lines 169-174: the history call; any exception falls back to an empty  *)
(* DataFrame.                                                             *)
HistOrFallback(res, payload) == IF res.status = "returned" THEN payload ELSE EmptyFrame

(* Lines 147-250 of get_fund_data on a cache miss, under scenario sc: the  *)
(* record built, the number of remote attempts made, and the stages that  *)
(* failed with their exceptions.                                          *)
FetchOutcome(ticker, sc) ==
    LET infoRes == fetch_with_retry(ticker, "info", sc.infoScript)
        info == InfoOrFallback(infoRes, sc.info)
        histRes == fetch_with_retry(ticker, "history", sc.histScript)
        hist == HistOrFallback(histRes, sc.hist)
        initExc == Exc("ValueError", "invalid ticker")
        typeExc == Exc("TypeError", ">= not supported")
    IN  IF ~sc.init
        THEN [record |-> InitErrorRecord(ticker, initExc),
              calls |-> 0, failures |-> {Failure("init", initExc)}]
        ELSE [record |-> IF AumRaises(info.marketCap)
                         THEN ProcessingErrorRecord(ticker, typeExc)
                         ELSE SuccessRecord(ticker, info, hist),
              calls |-> infoRes.attempts + histRes.attempts,
              failures |->
                  (IF infoRes.status = "raised"
                   THEN {Failure("info", infoRes.exc)} ELSE {})
                  \cup (IF histRes.status = "raised"
                        THEN {Failure("history", histRes.exc)} ELSE {})
                  \cup (IF AumRaises(info.marketCap)
                        THEN {Failure("compute", typeExc)} ELSE {})]

(* ---------------------------------------------------------------------- *)
(* State                                                                  *)
(* ---------------------------------------------------------------------- *)
VARIABLES
    ticker_cache,     \* st.session_state.ticker_cache: dict ticker -> record
    cache_timestamp,  \* st.session_state.cache_timestamp: dict ticker -> time
    now,              \* time.time()
    phase,            \* main(): "idle" | "sequential" | "parallel"
    ncalls,           \* number of direct calls of get_fund_data made
    results,          \* the list being assembled by the running batch
    fund_data,        \* st.session_state.fund_data (<<>>: not yet set)
    pc,               \* per ticker index: position of its get_fund_data call
    current_time,     \* per call: local current_time (line 139)
    cache_time,       \* per call: local cache_time (line 140)
    result,           \* per call: the record built / returned
    obs,              \* per call: what the call saw and did (history only)
    retry,            \* one invocation of fetch_with_retry, run step by step
    cache_duration,   \* main(): the Cache Duration slider, in minutes
    calc,             \* one field computation: its inputs and the record built
    finished          \* the calls of the running batch, in order of completion
                      \* (history only)

vars == <<ticker_cache, cache_timestamp, now, phase, ncalls, results,
          fund_data, pc, current_time, cache_time, result, obs, retry,
          cache_duration, calc, finished>>

NoRecord == [status |-> "none"]

NoObs == [seen |-> None, path |-> "none", calls |-> 0, failures |-> {}]

NoRetry == [st |-> [RetryStart EXCEPT !.status = "none"], ticker |-> None,
            method_name |-> "", script |-> <<>>]

IdleFrames == [i \in Idx |-> "idle"]

NoCalc == [ticker |-> None, info |-> EmptyInfo, hist |-> EmptyFrame, record |-> NoRecord]

Init ==
    /\ ticker_cache = <<>>
    /\ cache_timestamp = <<>>
    /\ now = 0
    /\ phase = "idle"
    /\ ncalls = 0
    /\ results = <<>>
    /\ fund_data = <<>>
    /\ pc = IdleFrames
    /\ current_time = [i \in Idx |-> 0]
    /\ cache_time = [i \in Idx |-> 0]
    /\ result = [i \in Idx |-> NoRecord]
    /\ obs = [i \in Idx |-> NoObs]
    /\ retry = NoRetry
    /\ cache_duration = default_duration
    /\ calc = NoCalc
    /\ finished = <<>>

(* d[k] = v on a dict. *)
Put(d, k, v) == [x \in (DOMAIN d) \cup {k} |-> IF x = k THEN v ELSE d[x]]

(* d.get(k, default) on a dict. *)
DictGet(d, k, default) == IF k \in DOMAIN d THEN d[k] ELSE default

(* The cache entry of a ticker, as a call finds it: None or               *)
(* <<record, timestamp>>.                                                 *)
Entry(ticker) ==
    IF ticker \in DOMAIN ticker_cache
    THEN <<ticker_cache[ticker], DictGet(cache_timestamp, ticker, 0)>>
    ELSE None

(* ---------------------------------------------------------------------- *)
(* get_fund_data(FUND_TICKERS[i]), one step per access to the shared      *)
(* dicts.  pc[i]:                                                         *)
(*   idle    not called                                                   *)
(*   check   lines 139-141 done (time taken, cache_timestamp read)        *)
(*   cached  line 144 found a fresh entry; line 145 not yet executed      *)
(*   fetch   line 144 found none; before line 147                         *)
(*   store   record built (line 228); before line 231                     *)
(*   stamp   line 231 done; before line 232                               *)
(*   done    returned; the caller has not taken the record yet            *)
(*   taken   the caller has the record; the call's locals are gone        *)
(* ---------------------------------------------------------------------- *)
FrameUnchanged ==
    UNCHANGED <<now, phase, ncalls, results, fund_data, retry, cache_duration, calc>>

(* The call of index i returns (history only, within a batch). *)
Completes(i) ==
    finished' = IF phase = "idle" THEN finished ELSE Append(finished, i)

(* Lines 139-141. *)
Begin(i) ==
    LET ticker == FUND_TICKERS[i]
    IN  /\ pc' = [pc EXCEPT ![i] = "check"]
        /\ current_time' = [current_time EXCEPT ![i] = now]
        /\ cache_time' = [cache_time EXCEPT ![i] = DictGet(cache_timestamp, ticker, 0)]
        /\ result' = [result EXCEPT ![i] = NoRecord]
        /\ obs' = [obs EXCEPT ![i] = [NoObs EXCEPT !.seen = Entry(ticker)]]
        /\ UNCHANGED <<ticker_cache, cache_timestamp, now, fund_data, retry,
                       cache_duration, calc, finished>>

(* The condition of line 144 with <= for <. *)
IsFreshInclusive(ticker, cache_age) ==
    ticker \in DOMAIN ticker_cache /\ cache_age <= CACHE_SECONDS

(* The condition of line 144. *)
IsFresh(ticker, cache_age) ==
    ticker \in DOMAIN ticker_cache /\ cache_age < CACHE_SECONDS

(* Line 144. *)
Check(i) ==
    /\ pc[i] = "check"
    /\ IF IsFresh(FUND_TICKERS[i], current_time[i] - cache_time[i])
       THEN /\ pc' = [pc EXCEPT ![i] = "cached"]
            /\ obs' = [obs EXCEPT ![i].path = "hit"]
       ELSE /\ pc' = [pc EXCEPT ![i] = "fetch"]
            /\ obs' = [obs EXCEPT ![i].path = "miss"]
    /\ UNCHANGED <<ticker_cache, cache_timestamp, current_time, cache_time,
                   result, finished>>
    /\ FrameUnchanged

(* A cache that restarts the clock of an entry each time it is read. *)
ReturnCachedTouch(i) ==
    /\ pc[i] = "cached"
    /\ result' = [result EXCEPT ![i] = ticker_cache[FUND_TICKERS[i]]]
    /\ cache_timestamp' = Put(cache_timestamp, FUND_TICKERS[i], current_time[i])
    /\ pc' = [pc EXCEPT ![i] = "done"]
    /\ Completes(i)
    /\ UNCHANGED <<ticker_cache, current_time, cache_time, obs>>
    /\ FrameUnchanged

(* Line 145. *)
ReturnCached(i) ==
    /\ pc[i] = "cached"
    /\ result' = [result EXCEPT ![i] = ticker_cache[FUND_TICKERS[i]]]
    /\ pc' = [pc EXCEPT ![i] = "done"]
    /\ Completes(i)
    /\ UNCHANGED <<ticker_cache, cache_timestamp, current_time, cache_time, obs>>
    /\ FrameUnchanged

(* Every record built is stored, error records too. *)
AfterBuildAlwaysStore(record) == "store"

(* Where a call goes once its record is built: a success record is stored *)
(* (lines 230-232), an error record is returned at once (238, 246).       *)
AfterBuild(record) == IF record.status = "success" THEN "store" ELSE "done"

(* Lines 147-228 / 236-250. *)
Fetch(i, sc) ==
    LET out == FetchOutcome(FUND_TICKERS[i], sc)
    IN  /\ pc[i] = "fetch"
        /\ result' = [result EXCEPT ![i] = out.record]
        /\ obs' = [obs EXCEPT ![i].calls = out.calls, ![i].failures = out.failures]
        /\ pc' = [pc EXCEPT ![i] = AfterBuild(out.record)]
        /\ IF AfterBuild(out.record) = "done" THEN Completes(i)
           ELSE UNCHANGED finished
        /\ UNCHANGED <<ticker_cache, cache_timestamp, current_time, cache_time>>
        /\ FrameUnchanged

(* Line 231. *)
StoreRecord(i) ==
    /\ pc[i] = "store"
    /\ ticker_cache' = Put(ticker_cache, FUND_TICKERS[i], result[i])
    /\ pc' = [pc EXCEPT ![i] = "stamp"]
    /\ UNCHANGED <<cache_timestamp, current_time, cache_time, result, obs, finished>>
    /\ FrameUnchanged

(* Lines 232-234. *)
StoreTimestamp(i) ==
    /\ pc[i] = "stamp"
    /\ cache_timestamp' = Put(cache_timestamp, FUND_TICKERS[i], current_time[i])
    /\ pc' = [pc EXCEPT ![i] = "done"]
    /\ Completes(i)
    /\ UNCHANGED <<ticker_cache, current_time, cache_time, result, obs>>
    /\ FrameUnchanged

(* ---------------------------------------------------------------------- *)
(* The clock.  Time passes during the jitter and backoff sleeps, the      *)
(* network calls, the inter-request sleep and between calls.  A batch is  *)
(* followed at one instant; the ageing of cache entries is followed call  *)
(* by call in SpecCall.                                                   *)
(* ---------------------------------------------------------------------- *)
CallDelays == {CACHE_SECONDS \div 2 - 1, CACHE_SECONDS \div 2, CACHE_SECONDS \div 2 + 1}

Tick(d) ==
    /\ now + d <= MaxTime
    /\ now' = now + d
    /\ UNCHANGED <<ticker_cache, cache_timestamp, phase, ncalls, results,
                   fund_data, pc, current_time, cache_time, result, obs, retry,
                   cache_duration, calc, finished>>

(* ---------------------------------------------------------------------- *)
(* main(), lines 502-509: a batch in one of the two modes.                *)
(* ---------------------------------------------------------------------- *)
StartBatch(mode) ==
    /\ phase = "idle"
    /\ phase' = mode
    /\ results' = <<>>
    /\ pc' = IdleFrames
    /\ finished' = <<>>
    /\ UNCHANGED <<ticker_cache, cache_timestamp, now, fund_data, ncalls,
                   current_time, cache_time, result, obs, retry,
                   cache_duration, calc>>

(* Line 505 / line 508: the list is stored in the session state (from     *)
(* then on 'fund_data' is in it: fund_data # <<>>).                        *)
FinishBatch ==
    /\ phase \in {"sequential", "parallel"}
    /\ Len(results) = Len(FUND_TICKERS)
    /\ fund_data' = results
    /\ phase' = "idle"
    /\ finished' = <<>>
    /\ UNCHANGED <<ticker_cache, cache_timestamp, now, ncalls, results,
                   pc, current_time, cache_time, result, obs, retry,
                   cache_duration, calc>>

(* The caller takes the returned record: the frame of the call is gone.   *)
Release(i) ==
    /\ pc' = [pc EXCEPT ![i] = "taken"]
    /\ current_time' = [current_time EXCEPT ![i] = 0]
    /\ cache_time' = [cache_time EXCEPT ![i] = 0]
    /\ result' = [result EXCEPT ![i] = NoRecord]
    /\ obs' = [obs EXCEPT ![i] = NoObs]
    /\ UNCHANGED <<retry, cache_duration, calc, finished>>

(* fetch_sequentially, line 263: the loop calls get_fund_data for the     *)
(* next ticker.                                                           *)
SeqCall(i) ==
    /\ phase = "sequential"
    /\ i = Len(results) + 1
    /\ pc[i] = "idle"
    /\ Begin(i)
    /\ UNCHANGED <<phase, ncalls, results>>

(* fetch_sequentially, lines 264-267: append, then sleep. *)
SeqAppend(i) ==
    /\ phase = "sequential"
    /\ i = Len(results) + 1
    /\ pc[i] = "done"
    /\ results' = Append(results, result[i])
    /\ Release(i)
    /\ UNCHANGED <<ticker_cache, cache_timestamp, now, phase, ncalls, fund_data>>

(* A pool whose workers are not given back when their call returns. *)
RunningNeverFreed == {i \in Idx : pc[i] # "idle"}

(* Calls in progress. *)
Running == {i \in Idx : pc[i] \notin {"idle", "done", "taken"}}

(* A pool that starts a thread for every submitted call. *)
HasFreeWorkerUnbounded == TRUE

(* ThreadPoolExecutor(max_workers=3): the pool owns max_workers threads,  *)
(* each running one call at a time.                                       *)
HasFreeWorker == Cardinality(Running) < max_workers

(* A free worker takes the oldest queued call. *)
WorkerPick(i) ==
    /\ phase = "parallel"
    /\ pc[i] = "idle"
    /\ \A j \in Idx : j < i => pc[j] # "idle"
    /\ HasFreeWorker
    /\ Begin(i)
    /\ UNCHANGED <<phase, ncalls, results>>

(* Results taken as the calls complete (as_completed) instead. *)
CanYieldCompleted(i) == pc[i] = "done"

(* executor.map yields the results in submission order: the next record   *)
(* of the list is that of the next ticker, once its call is done.         *)
CanYield(i) == pc[i] = "done" /\ i = Len(results) + 1

MapYield(i) ==
    /\ phase = "parallel"
    /\ Len(results) < Len(FUND_TICKERS)
    /\ CanYield(i)
    /\ results' = Append(results, result[i])
    /\ Release(i)
    /\ UNCHANGED <<ticker_cache, cache_timestamp, now, phase, ncalls, fund_data>>

(* Remote behaviours explored in a batch. *)
BatchScenarios ==
    { Scenario(TRUE, Then429(1, "ok"), FullInfo, Always("http"), Series21),
      Scenario(TRUE, Always("ok"), BadCapInfo, Always("ok"), Series21) }

FrameStep(i, scenarios) ==
    \/ Check(i)
    \/ ReturnCached(i)
    \/ \E sc \in scenarios : Fetch(i, sc)
    \/ StoreRecord(i)
    \/ StoreTimestamp(i)

(* A remote that behaves the same way at every call for a ticker: the    *)
(* payloads of the tickers listed on Xetra carry a market cap that is no  *)
(* number, those of the others are served after one rate limit.           *)
SteadyScenarios(ticker) ==
    IF ticker[2] = "DE"
    THEN {Scenario(TRUE, Always("ok"), BadCapInfo, Always("ok"), Series21)}
    ELSE {Scenario(TRUE, Then429(1, "ok"), FullInfo, Always("http"), Series21)}

(* The steps of a running batch, against the remote of BatchScenarios or, *)
(* if steady, against that of SteadyScenarios.                            *)
BatchStepAgainst(steady) ==
    \/ \E i \in Idx : SeqCall(i)
    \/ \E i \in Idx : SeqAppend(i)
    \/ \E i \in Idx : WorkerPick(i)
    \/ \E i \in Idx : MapYield(i)
    \/ \E i \in Idx :
          FrameStep(i, IF steady THEN SteadyScenarios(FUND_TICKERS[i])
                       ELSE BatchScenarios)
    \/ FinishBatch

BatchStep == BatchStepAgainst(FALSE)

Next ==
    \/ StartBatch("sequential")
    \/ StartBatch("parallel")
    \/ BatchStep

Spec == Init /\ [][Next]_vars

(* Batches with progress: the main thread and the workers keep running,   *)
(* and every remote call returns or fails, so a batch that can take a     *)
(* step takes one.  Nothing obliges the user to ask for a batch.          *)
SteadyStep == BatchStepAgainst(TRUE)

FairNext ==
    \/ StartBatch("sequential")
    \/ StartBatch("parallel")
    \/ SteadyStep

FairSpec == Init /\ [][FairNext]_vars /\ WF_vars(SteadyStep)

(* ---------------------------------------------------------------------- *)
(* get_fund_data called directly, one call at a time, for any ticker and  *)
(* at any time, against a wider range of remote behaviours.               *)
(* ---------------------------------------------------------------------- *)
CallScenarios ==
    { Scenario(TRUE, Always("ok"), FullInfo, Always("ok"), Series21),
      Scenario(TRUE, Always("429"), FullInfo, Always("http"), Series21),
      Scenario(TRUE, Then429(2, "ok"), FullInfo, Always("ok"), EmptyFrame),
      Scenario(TRUE, Always("other"), FullInfo, Then429(1, "ok"), Series21),
      Scenario(TRUE, Always("ok"), EmptyInfo, Always("ok"), EmptyFrame),
      Scenario(TRUE, Always("ok"), BadCapInfo, Always("ok"), Series21),
      Scenario(FALSE, Always("ok"), FullInfo, Always("ok"), Series21) }

(* The tickers the calls are for: MaxCalls calls involve no more than     *)
(* MaxCalls tickers, and the tickers are treated alike.                   *)
Callable == {i \in Idx : i <= MaxCalls}

Call(i) ==
    /\ phase = "idle"
    /\ ncalls < MaxCalls
    /\ \A j \in Idx : pc[j] \in {"idle", "taken"}
    /\ ncalls' = ncalls + 1
    /\ Begin(i)
    /\ UNCHANGED <<phase, results>>

TakeResult(i) ==
    /\ phase = "idle"
    /\ pc[i] = "done"
    /\ Release(i)
    /\ UNCHANGED <<ticker_cache, cache_timestamp, now, phase, ncalls,
                   results, fund_data>>

(* Lines 477-483: the values the Cache Duration slider is moved to (its   *)
(* minimum, its default and its maximum), in minutes.                     *)
Durations == {5, default_duration, 60}

(* The user moves the slider between two calls; the script reruns and     *)
(* binds the local cache_duration, which nothing reads.                   *)
SetCacheDuration(m) ==
    /\ phase = "idle"
    /\ \A j \in Idx : pc[j] \in {"idle", "taken"}
    /\ m # cache_duration
    /\ cache_duration' = m
    /\ UNCHANGED <<ticker_cache, cache_timestamp, now, phase, ncalls, results,
                   fund_data, pc, current_time, cache_time, result, obs, retry,
                   calc, finished>>

NextCall ==
    \/ \E m \in Durations : SetCacheDuration(m)
    \/ \E i \in Callable : Call(i)
    \/ \E i \in Idx : FrameStep(i, CallScenarios)
    \/ \E i \in Idx : TakeResult(i)
    \/ \E d \in CallDelays : Tick(d)

SpecCall == Init /\ [][NextCall]_vars

(* ---------------------------------------------------------------------- *)
(* fetch_with_retry run one loop iteration at a time, for any ticker,     *)
(* either method and any behaviour of the remote.                         *)
(* ---------------------------------------------------------------------- *)
Methods == {"info", "history"}

Others == <<ticker_cache, cache_timestamp, now, phase, ncalls, results,
            fund_data, pc, current_time, cache_time, result, obs, cache_duration,
            calc, finished>>

(* Line 115. *)
RetryCall(ticker, method_name, script) ==
    /\ retry.st.status = "none"
    /\ retry' = [st |-> RetryStart, ticker |-> Some(ticker),
                 method_name |-> method_name, script |-> script]
    /\ UNCHANGED Others

(* Lines 116-131: the guard holds and the body runs once. *)
RetryAttempt ==
    /\ retry.st.status = "running"
    /\ RetryGuard(retry.st)
    /\ retry' = [retry EXCEPT
                   !.st = RetryIteration(@, retry.script[retry.st.attempts + 1])]
    /\ UNCHANGED Others

(* Line 134: the guard fails. *)
RetryGiveUp ==
    /\ retry.st.status = "running"
    /\ ~RetryGuard(retry.st)
    /\ retry' = [retry EXCEPT
                   !.st = RetryExhaust(@, retry.ticker[1], retry.method_name)]
    /\ UNCHANGED Others

NextRetry ==
    \/ \E t \in TickerSet, m \in Methods, s \in Scripts : RetryCall(t, m, s)
    \/ RetryAttempt
    \/ RetryGiveUp

SpecRetry == Init /\ [][NextRetry]_vars

(* ---------------------------------------------------------------------- *)
(* The field computations of get_fund_data (lines 176-228) applied to the *)
(* payloads of a remote that answers both calls at once.                  *)
(* ---------------------------------------------------------------------- *)
Magnitudes == {0, 500, 999, 999994, 1000000, 2300000, 1000000000, 1500000000}

MarketCaps == {None, <<"str">>} \cup {<<"num", m>> : m \in Magnitudes}

Infos ==
    {[FullInfo EXCEPT !.marketCap = c] : c \in MarketCaps}
        \cup {EmptyInfo, [FullInfo EXCEPT !.annualReportExpenseRatio = Some(0)]}

ZeroBase21 == [Series21 EXCEPT ![1] = 0]

Flat21 == [k \in 1..21 |-> 100]

Histories ==
    {EmptyFrame, <<100>>, <<100, 110>>, <<0, 110>>, <<100, 0>>, <<100, 100>>,
     Series21, ZeroBase21, Flat21}

(* Any ticker symbol can be asked for: those of the list and one without  *)
(* an exchange suffix.                                                    *)
AnyTickers == TickerSet \cup {<<"SPY", "">>}

Compute(ticker, info, hist) ==
    /\ calc = NoCalc
    /\ calc' = [ticker |-> Some(ticker), info |-> info, hist |-> hist,
                record |-> FetchOutcome(ticker,
                              Scenario(TRUE, Always("ok"), info,
                                       Always("ok"), hist)).record]
    /\ UNCHANGED <<ticker_cache, cache_timestamp, now, phase, ncalls, results,
                   fund_data, pc, current_time, cache_time, result, obs, retry,
                   cache_duration, finished>>

NextFields == \E t \in AnyTickers, info \in Infos, hist \in Histories : Compute(t, info, hist)

SpecFields == Init /\ [][NextFields]_vars

(* ====================================================================== *)
(* Properties                                                             *)
(* ====================================================================== *)
InputOrder(list) ==
    /\ Len(list) <= Len(FUND_TICKERS)
    /\ \A k \in 1..Len(list) : list[k].ticker = FUND_TICKERS[k]

(* C1: in both modes the list a batch returns has exactly one record per  *)
(* input ticker, the record at position k being that of the k-th ticker,  *)
(* whatever the order in which the calls complete; the list under         *)
(* assembly is always a prefix of that.                                   *)
C1_OutputOrderMatchesInput ==
    /\ InputOrder(results)
    /\ (phase = "idle" /\ fund_data # <<>>) =>
          (Len(fund_data) = Len(FUND_TICKERS) /\ InputOrder(fund_data))

(* A parallel batch whose list is complete although the calls completed   *)
(* in another order than the input. *)
C1_Witness ==
    /\ phase = "parallel"
    /\ Len(results) = Len(FUND_TICKERS)
    /\ Len(finished) = Len(FUND_TICKERS)
    /\ \E k \in Idx : finished[k] # k

FinancialFields ==
    {"last_price", "nav", "performance_1m", "nav_change_1d", "aum", "expense_ratio"}

WellShaped(r) ==
    /\ r.status \in {"success", "error"}
    /\ r.status = "success" => "message" \notin DOMAIN r
    /\ r.status = "error" => (DOMAIN r) \cap FinancialFields = {}

Returned(i) == pc[i] = "done"

(* C2: every record get_fund_data returns, freshly built or served from   *)
(* the cache, and every record the cache holds: a success record has no   *)
(* message field, an error record has no financial field.                 *)
C2_StatusDecidesFields ==
    /\ \A i \in Idx : Returned(i) => WellShaped(result[i])
    /\ \A t \in DOMAIN ticker_cache : WellShaped(ticker_cache[t])

(* A call served from the cache has returned. *)
C2_Witness == \E i \in Idx : Returned(i) /\ obs[i].path = "hit"

(* The age of the entry a call found, at the time of the call. *)
SeenAge(i) == current_time[i] - obs[i].seen[2]

(* C3: a call that finds an entry stamped T returns that entry's record   *)
(* and makes no remote attempt when it is made before T + TTL; made at    *)
(* T + TTL or later it takes the fetch path, and makes at least one       *)
(* remote attempt unless constructing the Ticker object fails.            *)
C3_FreshServedStaleFetched ==
    \A i \in Idx :
        (Returned(i) /\ obs[i].seen # None) =>
            /\ SeenAge(i) < CACHE_SECONDS =>
                  /\ obs[i].path = "hit"
                  /\ result[i] = obs[i].seen[1]
                  /\ obs[i].calls = 0
            /\ SeenAge(i) >= CACHE_SECONDS =>
                  /\ obs[i].path = "miss"
                  /\ (\A f \in obs[i].failures : f.stage # "init") => obs[i].calls >= 1

(* A call made one second before the entry expires has been served. *)
C3_Witness ==
    \E i \in Idx :
        Returned(i) /\ obs[i].seen # None /\ SeenAge(i) = CACHE_SECONDS - 1

(* Number of leading rate-limited answers of a remote behaviour. *)
RECURSIVE Leading429(_, _)
Leading429(script, k) ==
    IF k <= Len(script) /\ script[k] = "429" THEN Leading429(script, k + 1) ELSE k - 1

RetryFinished == retry.st.status \in {"returned", "raised"}

(* C4: a remote that is rate-limited on its first k attempts and then     *)
(* succeeds is called exactly k + 1 times and its result returned when    *)
(* k < max_retries; a remote that is rate-limited on every permitted      *)
(* attempt is called exactly max_retries times and the failure raised     *)
(* names the operation and the ticker.                                    *)
C4_RetryAttemptCount ==
    RetryFinished =>
        LET k == Leading429(retry.script, 1)
        IN  /\ (k < max_retries /\ retry.script[k + 1] = "ok") =>
                  /\ retry.st.status = "returned"
                  /\ retry.st.attempts = k + 1
            /\ k >= max_retries =>
                  /\ retry.st.status = "raised"
                  /\ retry.st.attempts = max_retries
                  /\ retry.st.exc.text = "Failed to fetch"
                  /\ retry.st.exc.op = retry.method_name
                  /\ retry.st.exc.ticker = retry.ticker

(* Two rate-limited attempts, then success on the third. *)
C4_Witness ==
    /\ retry.st.status = "returned"
    /\ Leading429(retry.script, 1) = max_retries - 1
    /\ retry.st.attempts = max_retries

(* C5: a failure at any stage of one ticker's fetch (Ticker construction, *)
(* info call, history call, field computation) ends in an error record    *)
(* for that ticker, and the batch still returns one record per ticker.    *)
C5_StageFailureBecomesErrorRecord ==
    /\ \A i \in Idx :
          (Returned(i) /\ obs[i].failures # {}) =>
              /\ result[i].status = "error"
              /\ result[i].ticker = FUND_TICKERS[i]
    /\ (phase = "idle" /\ fund_data # <<>>) => Len(fund_data) = Len(FUND_TICKERS)

(* The failures the retry executor itself ends in: a request error that   *)
(* is not rate-limiting, or the exhaustion of the attempt budget.         *)
RetryExecutorFailure(f) ==
    /\ f.stage \in {"info", "history"}
    /\ \/ IsRequestError(f.exc) /\ ~Has429(f.exc)
       \/ f.exc.text = "Failed to fetch"

(* C6: whenever a remote call of a ticker ends in failure inside the      *)
(* retry executor, the record returned for the ticker has status error    *)
(* and its message carries the cause.                                     *)
C6_RemoteFailureReportedAsError ==
    \A i \in Idx :
        Returned(i) =>
            \A f \in obs[i].failures :
                RetryExecutorFailure(f) =>
                    /\ result[i].status = "error"
                    /\ result[i].message.cause = f.exc

RecoveredSomething(r) ==
    \/ r.last_price # None
    \/ r.nav # None
    \/ r.performance_1m # None
    \/ r.nav_change_1d # None
    \/ r.expense_ratio # None
    \/ r.aum # <<"N/A">>

(* C7: no record with status success is returned in which no financial    *)
(* field was recovered.                                                   *)
C7_SuccessHasSomeField ==
    \A i \in Idx :
        (Returned(i) /\ result[i].status = "success") => RecoveredSomething(result[i])

Holds(ticker, record, timestamp) ==
    /\ ticker \in DOMAIN ticker_cache
    /\ ticker_cache[ticker] = record
    /\ ticker \in DOMAIN cache_timestamp
    /\ cache_timestamp[ticker] = timestamp

(* C8, as claimed: after every call that missed the cache, whether it     *)
(* built a success record or an error record, the entry of its ticker     *)
(* holds the record returned and the time of the call.                    *)
C8_EveryFetchIsCached ==
    \A i \in Idx :
        (Returned(i) /\ obs[i].path = "miss") =>
            Holds(FUND_TICKERS[i], result[i], current_time[i])

(* C8, amended: after a call that missed the cache and returned a success *)
(* record, the entry of its ticker holds that record and the time at      *)
(* which the call started; after one that returned an error record, the   *)
(* entry of its ticker is as the call found it.                           *)
C8_SuccessIsCachedErrorIsNot ==
    \A i \in Idx :
        (Returned(i) /\ obs[i].path = "miss") =>
            /\ result[i].status = "success" =>
                  Holds(FUND_TICKERS[i], result[i], current_time[i])
            /\ result[i].status = "error" =>
                  Entry(FUND_TICKERS[i]) = obs[i].seen

(* A call found a stale entry, failed, and returned an error record. *)
C8_Witness ==
    \E i \in Idx :
        /\ Returned(i)
        /\ obs[i].path = "miss"
        /\ result[i].status = "error"
        /\ obs[i].seen # None

(* A call is inside a cache operation: between the two reads of the       *)
(* lookup (lines 140 and 144-145) or between the two stores (231, 232).   *)
InsideCacheOp(i) == pc[i] \in {"check", "cached", "stamp"}

(* C9: every cache read and every cache write is one atomic step under a  *)
(* single lock: no call is inside a cache operation while another call is *)
(* inside one.                                                            *)
C9_CacheOpsMutuallyExclusive ==
    \A i, j \in Idx : (i # j /\ InsideCacheOp(i)) => ~InsideCacheOp(j)

InFlight(i) == pc[i] \in {"check", "cached", "fetch", "store", "stamp"}

(* C10: at most one call is in flight for any ticker: two calls in flight *)
(* are for different tickers, so no two calls write the same entry.       *)
C10_OneCallPerTicker ==
    \A i, j \in Idx :
        (i # j /\ InFlight(i) /\ InFlight(j)) => FUND_TICKERS[i] # FUND_TICKERS[j]

(* Two calls are writing the cache at the same time. *)
C10_Witness ==
    \E i, j \in Idx : i # j /\ pc[i] = "stamp" /\ pc[j] \in {"store", "stamp"}

(* C11: in parallel mode the number of get_fund_data calls executing at   *)
(* the same time never exceeds max_workers, however many tickers the      *)
(* batch has.                                                             *)
C11_PoolNeverExceedsMaxWorkers ==
    phase = "parallel" => Cardinality(Running) <= max_workers

(* All the workers are busy while a call is still queued. *)
C11_Witness ==
    /\ phase = "parallel"
    /\ Cardinality(Running) = max_workers
    /\ \E i \in Idx : pc[i] = "idle"

(* The sleeps of the kind given (jitter or backoff) in a trace. *)
Waits(trace, kind) == SelectSeq(trace, LAMBDA ev : ev[1] = kind)

(* The first attempt that is not rate-limited, from 1. *)
FirstOther == Leading429(retry.script, 1) + 1

(* C13: a failure that is not a rate limit is propagated at once, at any  *)
(* attempt number: the invocation raises that very failure, the failed    *)
(* attempt is its last, and no backoff wait follows it.                   *)
C13_OtherFailurePropagatesAtOnce ==
    (RetryFinished /\ FirstOther <= max_retries
                   /\ retry.script[FirstOther] \in {"http", "other"}) =>
        /\ retry.st.status = "raised"
        /\ retry.st.exc = OutcomeExc(retry.script[FirstOther])
        /\ retry.st.attempts = FirstOther
        /\ retry.st.trace[Len(retry.st.trace)] = <<"call">>
        /\ Len(Waits(retry.st.trace, "backoff")) = FirstOther - 1

(* A server error on the last permitted attempt, after two rate limits. *)
C13_Witness ==
    /\ retry.st.status = "raised"
    /\ FirstOther = max_retries
    /\ retry.script[FirstOther] = "http"

(* C12: the freshness window the lookup applies is the configured cache   *)
(* duration: whatever the slider is set to, a call that finds an entry    *)
(* is served from the cache iff the entry's age is less than that many    *)
(* minutes.                                                               *)
C12_WindowIsConfiguredDuration ==
    \A i \in Idx :
        (Returned(i) /\ obs[i].seen # None) =>
            (obs[i].path = "hit" <=> SeenAge(i) < cache_duration * 60)

(* C14: in the record built, an input that is absent is reported as       *)
(* absent and an input that is there, be it zero, is not: the aum is      *)
(* "N/A" exactly when the payload has no market cap, each percentage      *)
(* change is None exactly when the history has no base price for it, and  *)
(* the price and the expense ratio are None exactly when their input is.  *)
C14_AbsentIffInputAbsent ==
    calc.record.status = "success" =>
        LET r == calc.record
            info == calc.info
            hist == calc.hist
        IN  /\ r.aum = <<"N/A">> <=> info.marketCap = None
            /\ r.performance_1m = None <=> Len(hist) <= 20
            /\ r.nav_change_1d = None <=> Len(hist) <= 1
            /\ r.last_price = None <=> hist = EmptyFrame
            /\ r.expense_ratio = None <=>
                  (info.annualReportExpenseRatio = None /\ info.totalExpenseRatio = None)

(* The unit of a magnitude by descending thresholds. *)
UnitOf(m) == IF m >= 1000000000 THEN <<"B", 1000000000>>
             ELSE IF m >= 1000000 THEN <<"M", 1000000>>
             ELSE <<"K", 1000>>

(* C15: for every magnitude m the payload has, the aum string is the      *)
(* ticker's currency symbol, m over the unit chosen by descending         *)
(* thresholds (1e9: B, 1e6: M, else 1e3: K) to two decimals, and the      *)
(* unit; 1_500_000_000 with '$' gives $1.50B, 2_300_000 gives $2.30M and  *)
(* 500 gives $0.50K.                                                      *)
C15_AumUnitAndDecimals ==
    (calc.ticker # None /\ calc.info.marketCap # None
                        /\ calc.info.marketCap[1] = "num") =>
        LET m == calc.info.marketCap[2]
            sym == get_currency_symbol(calc.ticker[1])
            aum == calc.record.aum
            step == UnitOf(m)[2] \div 100
        IN  /\ calc.record.status = "success"
            /\ Len(aum) = 3
            /\ aum[1] = sym
            /\ aum[3] = UnitOf(m)[1]
            /\ aum[2] * step <= m + step \div 2
            /\ m + step \div 2 < (aum[2] + 1) * step
            /\ (m = 1500000000 /\ sym = "$") => aum = <<"$", 150, "B">>
            /\ (m = 2300000 /\ sym = "$") => aum = <<"$", 230, "M">>
            /\ (m = 500 /\ sym = "$") => aum = <<"$", 50, "K">>

(* The same for the magnitudes line 199 takes as present. *)
C15_ForTruthyMagnitudes ==
    (calc.info.marketCap # None /\ calc.info.marketCap[1] = "num"
                                /\ calc.info.marketCap[2] = 0)
        \/ C15_AumUnitAndDecimals

(* C17: every invocation of the remote method, the first and the retries  *)
(* alike, comes straight after a jitter sleep.                            *)
C17_JitterBeforeEveryCall ==
    LET trace == retry.st.trace
    IN  /\ Len(Waits(trace, "call")) = retry.st.attempts
        /\ \A k \in 1..Len(trace) :
              trace[k] = <<"call">> => (k > 1 /\ trace[k - 1] = <<"jitter">>)

(* The third attempt of an invocation has been made. *)
C17_Witness ==
    /\ retry.st.attempts = max_retries
    /\ Len(Waits(retry.st.trace, "backoff")) >= 2

(* C18: the backoff wait after the rate-limited failure of attempt a      *)
(* (from 0) has integer part 2^a, so the waits of one invocation are 1,   *)
(* 2 and 4 seconds plus a fraction; the attempt counter is the number of  *)
(* rate-limited failures so far, so it goes up by one at each of them and *)
(* at nothing else.                                                       *)
C18_BackoffDoublesCounterCounts429 ==
    LET waits == Waits(retry.st.trace, "backoff")
        answers == SubSeq(retry.script, 1, retry.st.attempts)
    IN  /\ \A a \in 1..Len(waits) : waits[a][2] = 2 ^ (a - 1)
        /\ \A a \in 1..Len(waits) : waits[a][2] \in {1, 2, 4}
        /\ retry.st.retries = Len(waits)
        /\ retry.st.retries = Len(SelectSeq(answers, LAMBDA o : o = "429"))

(* Three rate-limited failures have been waited for. *)
C18_Witness ==
    /\ retry.st.retries = max_retries
    /\ Waits(retry.st.trace, "backoff") = << <<"backoff", 1>>, <<"backoff", 2>>, <<"backoff", 4>> >>

(* C20: when the last permitted attempt is rate-limited too, the          *)
(* invocation still sleeps the whole backoff wait before it reports       *)
(* exhaustion: the exhaustion failure comes after max_retries backoff     *)
(* waits, the last of which is the last thing the invocation did.         *)
C20_ExhaustionAfterLastBackoff ==
    (retry.st.status = "raised" /\ retry.st.exc.text = "Failed to fetch") =>
        LET trace == retry.st.trace
        IN  /\ Len(Waits(trace, "backoff")) = max_retries
            /\ trace[Len(trace)] = <<"backoff", 2 ^ (max_retries - 1)>>

(* An invocation has ended in the exhaustion failure. *)
C20_Witness ==
    /\ retry.st.status = "raised"
    /\ retry.st.exc = ExhaustedExc(retry.ticker[1], retry.method_name)

(* A step of the call of index i on its way to being served from the      *)
(* cache: it starts, finds its entry fresh, or returns the cached record. *)
CacheHitStep(i) ==
    \/ pc[i] # pc'[i] /\ pc'[i] \in {"check", "cached"}
    \/ pc[i] = "cached" /\ pc'[i] = "done"

(* C19: a call served from the cache leaves the cache as it was: none of  *)
(* its steps changes the record or the timestamp of any ticker, and on    *)
(* its return the entry of its ticker is the one it found, timestamp      *)
(* included, so that reading an entry does not extend its freshness.      *)
C19_CacheHitLeavesCacheUnchanged ==
    /\ [](\A i \in Idx :
             (Returned(i) /\ obs[i].path = "hit") =>
                 Entry(FUND_TICKERS[i]) = obs[i].seen)
    /\ [][\A i \in Idx :
             CacheHitStep(i) => UNCHANGED <<ticker_cache, cache_timestamp>>]_vars

(* A call has been served an entry stored some time before. *)
C19_Witness ==
    \E i \in Idx : Returned(i) /\ obs[i].path = "hit" /\ SeenAge(i) > 0

(* C16: every batch completes, in either mode, when every remote call     *)
(* returns or fails: a running batch ends, a call that has started        *)
(* returns, and the list is handed to the caller only when it is whole    *)
(* and every call of the batch has returned and been collected.           *)
C16_EveryBatchCompletes ==
    /\ (phase # "idle") ~> (phase = "idle")
    /\ \A i \in Idx : InFlight(i) ~> ~InFlight(i)
    /\ [][(phase # "idle" /\ phase' = "idle") =>
             /\ Len(fund_data') = Len(FUND_TICKERS)
             /\ \A i \in Idx : pc[i] = "taken"]_vars

(* A parallel batch is about to hand over its list. *)
C16_Witness ==
    /\ phase = "parallel"
    /\ Len(results) = Len(FUND_TICKERS)
    /\ \A i \in Idx : pc[i] = "taken"

====
